---------------------------- MODULE Spec2Model ----------------------------
(***************************************************************************)
(* A model of build.py: the conversion between a python project and an     *)
(* Ignition script library.  Source text is a sequence of one-character    *)
(* strings, so that splitting, stripping, quoting and whole-word matching  *)
(* are computed character by character as the code computes them.          *)
(***************************************************************************)
EXTENDS Integers, Sequences, FiniteSets, TLC

\* One call of replace_reference: its arguments, its loop over the lines
\* (rr_i lines consumed, the carried multiline_quote, modified_lines) and
\* the value it returns.
VARIABLES rr_code, rr_find, rr_replace, rr_i, multiline_quote, modified_lines,
          rr_pc, rr_result

\* One file taken through the per-file transforms of build and reverse_build:
\* the source text, the configuration, the text in hand (py_code), the pass
\* and the step within it, the forward output, the mappings each direction
\* built, the new_lines the forward loop left before the substitution, and
\* the exception raised, if any.
VARIABLES src, source_modules, char_to_tab, tab_size, py_code, pass, step,
          fwd_out, fwd_replacements, inv_replacements, fwd_new_lines, exc

\* One batch run of build or reverse_build: the arguments, the source files
\* in the order of the walk, the destination tree (whether the folder exists,
\* whether it still holds the files of an earlier run, and the file written
\* for each source file), the number of files done, and the file-system
\* operations so far.
VARIABLES op, clean, files, dest_exists, stale, dest, fi, pc, fs_log, raised

varsR == <<rr_code, rr_find, rr_replace, rr_i, multiline_quote, modified_lines,
           rr_pc, rr_result>>
varsF == <<src, source_modules, char_to_tab, tab_size, py_code, pass, step,
           fwd_out, fwd_replacements, inv_replacements, fwd_new_lines, exc>>
varsB == <<op, clean, files, dest_exists, stale, dest, fi, pc, fs_log, raised>>
vars == <<varsR, varsF, varsB>>

(***************************************************************************)
(* Characters and the python str primitives the code uses                  *)
(***************************************************************************)

NL == "\n"
TAB == "\t"
BSL == "\\"
DQ == "\""
SQ == "'"

\* str.strip() with no argument strips these
Whitespace == {" ", TAB, NL, "\r"}

\* the characters the regular expression class \w matches
WordChars ==
  {"a","b","c","d","e","f","g","h","i","j","k","l","m","n","o","p","q","r",
   "s","t","u","v","w","x","y","z","A","B","C","D","E","F","G","H","I","J",
   "K","L","M","N","O","P","Q","R","S","T","U","V","W","X","Y","Z","0","1",
   "2","3","4","5","6","7","8","9","_"}

\* s[i:] with i counted from 1
Drop(s, i) == SubSeq(s, i, Len(s))

\* s.startswith(p)
StartsWith(s, p) == Len(p) <= Len(s) /\ SubSeq(s, 1, Len(p)) = p

\* s.endswith(p)
EndsWith(s, p) == Len(p) <= Len(s) /\ SubSeq(s, Len(s) - Len(p) + 1, Len(s)) = p

RECURSIVE LStrip(_)
LStrip(s) == IF s # <<>> /\ Head(s) \in Whitespace THEN LStrip(Tail(s)) ELSE s

RECURSIVE RStrip(_)
RStrip(s) ==
  IF s # <<>> /\ s[Len(s)] \in Whitespace THEN RStrip(SubSeq(s, 1, Len(s) - 1)) ELSE s

\* s.strip()
Strip(s) == RStrip(LStrip(s))

\* the index of the first occurrence of p in s at or after i, 0 when there is none
RECURSIVE FindFrom(_, _, _)
FindFrom(s, p, i) ==
  IF i + Len(p) - 1 > Len(s) THEN 0
  ELSE IF SubSeq(s, i, i + Len(p) - 1) = p THEN i
  ELSE FindFrom(s, p, i + 1)

\* p in s
Contains(s, p) == FindFrom(s, p, 1) # 0

\* s.split(sep): the pieces between the non-overlapping occurrences of sep
RECURSIVE Split(_, _)
Split(s, sep) ==
  LET k == FindFrom(s, sep, 1) IN
  IF k = 0 THEN <<s>>
  ELSE <<SubSeq(s, 1, k - 1)>> \o Split(Drop(s, k + Len(sep)), sep)

\* sep.join(parts)
RECURSIVE Join(_, _)
Join(parts, sep) ==
  IF parts = <<>> THEN <<>>
  ELSE IF Len(parts) = 1 THEN parts[1]
  ELSE parts[1] \o sep \o Join(Tail(parts), sep)

\* s.replace(old, new): every non-overlapping occurrence, left to right
RECURSIVE ReplaceAll(_, _, _)
ReplaceAll(s, old, new) ==
  LET k == FindFrom(s, old, 1) IN
  IF k = 0 THEN s
  ELSE SubSeq(s, 1, k - 1) \o new \o ReplaceAll(Drop(s, k + Len(old)), old, new)

\* s.replace(old, new, 1): the first occurrence only
ReplaceFirst(s, old, new) ==
  LET k == FindFrom(s, old, 1) IN
  IF k = 0 THEN s
  ELSE SubSeq(s, 1, k - 1) \o new \o Drop(s, k + Len(old))

\* ' ' * n
RECURSIVE Spaces(_)
Spaces(n) == IF n = 0 THEN <<>> ELSE <<" ">> \o Spaces(n - 1)

TripleQuote == <<DQ, DQ, DQ>>
QuoteChars == {SQ, DQ}

(***************************************************************************)
(* split_statement_by_quoted_strings                                       *)
(***************************************************************************)

\* The scan of lines 186-205: the list quoted_indexes of (start, end) pairs.
\* start = 0 stands for None; indexes count from 1.
RECURSIVE QuotedIndexes(_, _, _, _, _)
QuotedIndexes(statement, i, in_escape, start, quoted) ==
  IF i > Len(statement) THEN quoted
  ELSE LET c == statement[i] IN
    IF start # 0 /\ ~in_escape /\ c = BSL
      THEN QuotedIndexes(statement, i + 1, TRUE, start, quoted)
    ELSE IF start # 0 /\ ~in_escape /\ c \in QuoteChars
      THEN QuotedIndexes(statement, i + 1, in_escape, 0, Append(quoted, <<start, i>>))
    ELSE IF start # 0 /\ in_escape /\ c \in QuoteChars
      THEN QuotedIndexes(statement, i + 1, FALSE, start, quoted)
    ELSE IF start = 0 /\ c \in QuoteChars
      THEN QuotedIndexes(statement, i + 1, in_escape, i, quoted)
    ELSE QuotedIndexes(statement, i + 1, in_escape, start, quoted)

\* Lines 207-213: the parts, unquoted at odd positions (even python indexes)
RECURSIVE QuotedParts(_, _, _)
QuotedParts(statement, quoted, last_end) ==
  IF quoted = <<>> THEN <<Drop(statement, last_end + 1)>>
  ELSE LET s == quoted[1][1]
           e == quoted[1][2] IN
    <<SubSeq(statement, last_end + 1, s - 1), SubSeq(statement, s, e)>>
      \o QuotedParts(statement, Tail(quoted), e)

split_statement_by_quoted_strings(statement) ==
  IF \A i \in 1..Len(statement) : statement[i] \notin QuoteChars
  THEN <<statement>>
  ELSE QuotedParts(statement, QuotedIndexes(statement, 1, FALSE, 0, <<>>), 0)

(***************************************************************************)
(* replace_reference                                                       *)
(***************************************************************************)

IsWordAt(s, i) == i >= 1 /\ i <= Len(s) /\ s[i] \in WordChars

\* \b between positions p and p + 1 of s
WordBoundary(s, p) == IsWordAt(s, p) # IsWordAt(s, p + 1)

\* the pattern \b find \b matches s at i
PatternMatchAt_NoRightBoundary(s, i, find) ==
  /\ i + Len(find) - 1 <= Len(s)
  /\ SubSeq(s, i, i + Len(find) - 1) = find
  /\ WordBoundary(s, i - 1)

PatternMatchAt(s, i, find) ==
  /\ i + Len(find) - 1 <= Len(s)
  /\ SubSeq(s, i, i + Len(find) - 1) = find
  /\ WordBoundary(s, i - 1)
  /\ WordBoundary(s, i + Len(find) - 1)

\* pattern.sub(replace, s): leftmost non-overlapping matches
RECURSIVE PatternSubFrom(_, _, _, _)
PatternSubFrom(s, i, find, replace) ==
  IF i > Len(s) THEN <<>>
  ELSE IF PatternMatchAt(s, i, find)
    THEN replace \o PatternSubFrom(s, i + Len(find), find, replace)
  ELSE <<s[i]>> \o PatternSubFrom(s, i + 1, find, replace)

PatternSub(s, find, replace) == PatternSubFrom(s, 1, find, replace)

\* the pattern replaced in the parts at even python indexes (when even) or at
\* odd python indexes of a split line; the other parts are kept
SubAlternate(parts, even, find, replace) ==
  [j \in 1..Len(parts) |->
     IF (j % 2 = 1) = even THEN PatternSub(parts[j], find, replace) ELSE parts[j]]

\* Lines 286-292, 244-249 and 266-271: the pattern replaced in the unquoted
\* parts of a statement
SubUnquoted(statement, find, replace) ==
  Join(SubAlternate(split_statement_by_quoted_strings(statement), TRUE, find, replace),
       <<>>)

\* Lines 238-249 (inside = TRUE: the line starts inside the block, the parts
\* at odd python indexes are code) and 260-271 (inside = FALSE)
SubTripleParts(parts, inside, find, replace) ==
  [i \in 1..Len(parts) |->
     IF (i % 2 = 0) = inside THEN SubUnquoted(parts[i], find, replace)
     ELSE parts[i]]

IsCommentLine(line) == StartsWith(Strip(line), <<"#">>)

\* Lines 253-256 and 274-277: the line joined again, and multiline_quote
\* flipped when the number of parts is even
DelimitedLine_NeverCloses(parts, in_multiline) ==
  [out |-> Join(parts, TripleQuote),
   mq |-> IF Len(parts) % 2 # 1 THEN TRUE ELSE in_multiline]

DelimitedLine(parts, in_multiline) ==
  [out |-> Join(parts, TripleQuote),
   mq |-> IF Len(parts) % 2 # 1 THEN ~in_multiline ELSE in_multiline]

\* One iteration of the loop of lines 234-292: the appended line and the
\* carried multiline_quote
ReplaceLine(line, in_multiline, find, replace) ==
  IF in_multiline \/ (~IsCommentLine(line) /\ Contains(line, TripleQuote))
  THEN DelimitedLine(SubTripleParts(Split(line, TripleQuote), in_multiline,
                                    find, replace),
                     in_multiline)
  ELSE IF IsCommentLine(line)
  THEN [out |-> line, mq |-> in_multiline]
  ELSE [out |-> SubUnquoted(line, find, replace), mq |-> in_multiline]

RECURSIVE ReplaceLines(_, _, _, _)
RECURSIVE ReplaceRest(_, _, _, _)
ReplaceLines(lines, in_multiline, find, replace) ==
  IF lines = <<>> THEN <<>>
  ELSE ReplaceRest(ReplaceLine(Head(lines), in_multiline, find, replace),
                   Tail(lines), find, replace)

\* r is what the iteration on the line before rest gave
ReplaceRest(r, rest, find, replace) ==
  <<r.out>> \o ReplaceLines(rest, r.mq, find, replace)

replace_reference(code, find, replace) ==
  Join(ReplaceLines(Split(code, <<NL>>), FALSE, find, replace), <<NL>>)

(***************************************************************************)
(* get_imports: ast.parse on one directive line                            *)
(***************************************************************************)

\* The tokens of a line of python: identifiers and keywords, and each other
\* character by itself; white space separates and a comment ends the line.
RECURSIVE Tokenize(_)
Tokenize(s) ==
  IF s = <<>> \/ Head(s) = "#" THEN <<>>
  ELSE IF Head(s) \in Whitespace THEN Tokenize(Tail(s))
  ELSE IF Head(s) \in WordChars THEN
    LET n == CHOOSE k \in 1..Len(s) :
               /\ \A j \in 1..k : s[j] \in WordChars
               /\ (k < Len(s) => s[k + 1] \notin WordChars)
    IN <<SubSeq(s, 1, n)>> \o Tokenize(Drop(s, n + 1))
  ELSE <<<<Head(s)>>>> \o Tokenize(Tail(s))

KwFrom == <<"f","r","o","m">>
KwImport == <<"i","m","p","o","r","t">>
KwAs == <<"a","s">>
Digits == {"0","1","2","3","4","5","6","7","8","9"}

TokAt(toks, i) == IF i >= 1 /\ i <= Len(toks) THEN toks[i] ELSE <<>>

IsName(tok) ==
  /\ tok # <<>>
  /\ \A j \in 1..Len(tok) : tok[j] \in WordChars
  /\ tok[1] \notin Digits
  /\ tok \notin {KwFrom, KwImport, KwAs}

\* dotted_name: NAME ('.' NAME)*, from token i
RECURSIVE DottedName(_, _, _)
DottedName(toks, i, segs) ==
  IF ~IsName(TokAt(toks, i)) THEN [ok |-> FALSE, segs |-> segs, next |-> i]
  ELSE IF TokAt(toks, i + 1) = <<".">>
    THEN DottedName(toks, i + 2, Append(segs, toks[i]))
  ELSE [ok |-> TRUE, segs |-> Append(segs, toks[i]), next |-> i + 1]

\* one name of an import, d its dotted_name already read: the optional
\* 'as' NAME after it; alias <<>> stands for None
ImportItem(toks, d) ==
  IF d.ok /\ TokAt(toks, d.next) = KwAs
  THEN [ok |-> IsName(TokAt(toks, d.next + 1)), next |-> d.next + 2,
        item |-> [name |-> d.segs, alias |-> TokAt(toks, d.next + 1)]]
  ELSE [ok |-> d.ok, next |-> d.next, item |-> [name |-> d.segs, alias |-> <<>>]]

\* NAME, where dotted_name is not allowed
PlainName(toks, i) ==
  [ok |-> IsName(TokAt(toks, i)), segs |-> <<TokAt(toks, i)>>, next |-> i + 1]

\* the names of an import: (dotted_name | NAME) ['as' NAME], separated by
\* commas, from token i
RECURSIVE ImportNames(_, _, _, _)
RECURSIVE ImportNamesAfter(_, _, _, _)
ImportNames(toks, i, dotted, acc) ==
  ImportNamesAfter(toks,
                   ImportItem(toks, IF dotted THEN DottedName(toks, i, <<>>)
                                    ELSE PlainName(toks, i)),
                   dotted, acc)

ImportNamesAfter(toks, it, dotted, acc) ==
  IF ~it.ok THEN [ok |-> FALSE, names |-> acc, next |-> it.next]
  ELSE IF TokAt(toks, it.next) = <<",">> /\ TokAt(toks, it.next + 1) \notin {<<>>, <<")">>}
    THEN ImportNames(toks, it.next + 1, dotted, Append(acc, it.item))
  ELSE [ok |-> TRUE, names |-> Append(acc, it.item), next |-> it.next]

SyntaxError == [ok |-> FALSE, imports |-> <<>>]

\* the Import tuples of one statement: module, and each name with its alias
Imports(module, names) ==
  [ok |-> TRUE,
   imports |-> [k \in 1..Len(names) |->
      [module |-> module, name |-> names[k].name, alias |-> names[k].alias]]]

\* ast.Import (line 58-59): 'import' dotted_as_names, l the names read
ImportNode(toks, l) ==
  IF l.ok /\ l.next = Len(toks) + 1 THEN Imports(<<>>, l.names) ELSE SyntaxError

\* the names of an ast.ImportFrom, l the names read: in brackets a comma may
\* follow the last name and the bracket must close the statement
ImportFromNames(toks, m, paren, l) ==
  IF ~l.ok THEN SyntaxError
  ELSE IF ~paren
    THEN IF l.next = Len(toks) + 1 THEN Imports(m.segs, l.names) ELSE SyntaxError
  ELSE IF l.next + (IF TokAt(toks, l.next) = <<",">> THEN 1 ELSE 0) = Len(toks)
          /\ toks[Len(toks)] = <<")">>
    THEN Imports(m.segs, l.names)
  ELSE SyntaxError

\* ast.ImportFrom (lines 60-61): 'from' dotted_name 'import' ('*' | names |
\* '(' names ')'), m the module read
ImportFromNode(toks, m) ==
  IF ~m.ok \/ TokAt(toks, m.next) # KwImport THEN SyntaxError
  ELSE IF TokAt(toks, m.next + 1) = <<"*">>
    THEN IF m.next + 1 = Len(toks)
         THEN Imports(m.segs, <<[name |-> <<<<"*">>>>, alias |-> <<>>]>>)
         ELSE SyntaxError
  ELSE ImportFromNames(toks, m, TokAt(toks, m.next + 1) = <<"(">>,
         ImportNames(toks,
                     IF TokAt(toks, m.next + 1) = <<"(">> THEN m.next + 2 ELSE m.next + 1,
                     FALSE, <<>>))

\* the import nodes of a tokenized line
ImportNodes(toks) ==
  IF toks = <<>> THEN [ok |-> TRUE, imports |-> <<>>]
  ELSE IF toks[1] = KwImport THEN ImportNode(toks, ImportNames(toks, 2, TRUE, <<>>))
  ELSE IF toks[1] = KwFrom THEN ImportFromNode(toks, DottedName(toks, 2, <<>>))
  ELSE [ok |-> TRUE, imports |-> <<>>]

\* The Import tuples get_imports yields for one line, or SyntaxError when
\* ast.parse rejects the line.  The grammar is that of the import statements.
\* A line that is empty or a comment has no nodes; the callers pass no other
\* kind of statement.
get_imports(code) == ImportNodes(Tokenize(code))

(***************************************************************************)
(* The reference rewriter, forward and inverse                             *)
(***************************************************************************)

InSeq(x, seq) == \E k \in 1..Len(seq) : seq[k] = x

\* is_import_statement(line, target_modules)
is_import_statement(line, target_modules) ==
  \E k \in 1..Len(target_modules) :
    \/ StartsWith(line, KwFrom \o <<" ">> \o target_modules[k])
    \/ StartsWith(line, KwImport \o <<" ">> \o target_modules[k])

ImportSystem == KwImport \o <<" ","s","y","s","t","e","m",".">>
CommentPrefix == <<"#", " ">>

\* replacements[name] = fq_module on a dict kept as the list of its items in
\* insertion order
DictSet(d, name, fq) ==
  IF \E k \in 1..Len(d) : d[k][1] = name
  THEN [k \in 1..Len(d) |-> IF d[k][1] = name THEN <<name, fq>> ELSE d[k]]
  ELSE Append(d, <<name, fq>>)

\* Lines 341-346 and 389-394: the entries the imports of one line add to
\* replacements; roots are the root modules an import may start with
RECURSIVE RecordImports(_, _, _)
RecordImports(imports, roots, d) ==
  IF imports = <<>> THEN d
  ELSE LET imp == Head(imports)
           module == imp.module \o imp.name
       IN
    IF Len(module) > 1 /\ InSeq(module[1], roots)
    THEN RecordImports(Tail(imports), roots,
           DictSet(d, IF imp.alias = <<>> THEN module[Len(module)] ELSE imp.alias,
                   Join(module, <<".">>)))
    ELSE RecordImports(Tail(imports), roots, d)

NoPending == [some |-> FALSE, text |-> <<>>]

\* The loop of lines 313-349 from line i on: new_lines, replacements (d) and
\* the pending multi_line_import (mli); raised is set when get_imports raises.
RECURSIVE RewriteLoop(_, _, _, _, _, _)
RECURSIVE RewriteJoined(_, _, _, _, _, _, _)
RECURSIVE RewriteDirective(_, _, _, _, _, _, _)
RewriteLoop(lines, i, mods, new_lines, d, mli) ==
  IF i > Len(lines)
  THEN [raised |-> FALSE, new_lines |-> new_lines, replacements |-> d]
  ELSE IF StartsWith(lines[i], ImportSystem)
  THEN RewriteLoop(lines, i + 1, mods,
                   Append(new_lines, CommentPrefix \o Strip(lines[i])), d, mli)
  ELSE IF mli.some
  THEN RewriteJoined(lines, i, mods, new_lines, d, mli, Strip(lines[i]))
  ELSE RewriteDirective(lines, i, mods, new_lines, d, lines[i], Strip(lines[i]))

\* lines 321-328: a line while a multi-line import is pending
RewriteJoined(lines, i, mods, new_lines, d, mli, stripped) ==
  IF EndsWith(stripped, <<BSL>>)
  THEN RewriteLoop(lines, i + 1, mods, new_lines, d,
         [some |-> TRUE, text |-> mli.text \o SubSeq(stripped, 1, Len(stripped) - 1)])
  ELSE RewriteDirective(lines, i, mods, new_lines, d,
                        mli.text \o stripped, Strip(mli.text \o stripped))

\* lines 330-349: line, and line.strip(), with no multi-line import pending
RewriteDirective(lines, i, mods, new_lines, d, line, stripped) ==
  IF ~is_import_statement(stripped, mods)
  THEN RewriteLoop(lines, i + 1, mods, Append(new_lines, line), d, NoPending)
  ELSE IF EndsWith(stripped, <<BSL>>)
  THEN RewriteLoop(lines, i + 1, mods, new_lines, d,
         [some |-> TRUE, text |-> SubSeq(stripped, 1, Len(stripped) - 1)])
  ELSE IF ~get_imports(stripped).ok
  THEN [raised |-> TRUE, new_lines |-> Append(new_lines, CommentPrefix \o stripped),
        replacements |-> d]
  ELSE RewriteLoop(lines, i + 1, mods, Append(new_lines, CommentPrefix \o stripped),
                   RecordImports(get_imports(stripped).imports, mods, d), NoPending)

\* Lines 354-355 and 406-407: the replacements applied one after the other;
\* forward replaces name by fq_module, the inverse fq_module by name
RECURSIVE ApplyReplacements(_, _, _)
ApplyReplacements(code, d, forward) ==
  IF d = <<>> THEN code
  ELSE ApplyReplacements(
         replace_reference(code, d[1][IF forward THEN 1 ELSE 2],
                           d[1][IF forward THEN 2 ELSE 1]),
         Tail(d), forward)

\* Lines 351-357 and 403-409: what the function returns, r being what its
\* loop left: the code, the replacements built, the new_lines before the
\* substitution, and whether SyntaxError was raised instead
Rewritten(r, code, forward) ==
  IF r.raised THEN [raised |-> TRUE, code |-> code, replacements |-> r.replacements,
                    new_lines |-> r.new_lines]
  ELSE [raised |-> FALSE,
        code |-> ApplyReplacements(Join(r.new_lines, <<NL>>), r.replacements, forward),
        replacements |-> r.replacements, new_lines |-> r.new_lines]

\* replace_import_statements_with_direct_references
replace_import_statements_with_direct_references(code, mods) ==
  Rewritten(RewriteLoop(Split(code, <<NL>>), 1, mods, <<>>, <<>>, NoPending),
            code, TRUE)

\* the first target module the uncommented line is a directive of, 0 if none
RECURSIVE FirstTarget(_, _, _)
FirstTarget(uncommented, mods, k) ==
  IF k > Len(mods) THEN 0
  ELSE IF is_import_statement(uncommented, <<mods[k]>>) THEN k
  ELSE FirstTarget(uncommented, mods, k + 1)

\* The loop of lines 375-401 from line i on
RECURSIVE UndoLoop(_, _, _, _, _)
RECURSIVE UndoCommented(_, _, _, _, _, _, _)
UndoLoop(lines, i, mods, new_lines, d) ==
  IF i > Len(lines)
  THEN [raised |-> FALSE, new_lines |-> new_lines, replacements |-> d]
  ELSE IF ~StartsWith(lines[i], CommentPrefix)
  THEN UndoLoop(lines, i + 1, mods, Append(new_lines, lines[i]), d)
  ELSE UndoCommented(lines, i, mods, new_lines, d, Drop(Strip(lines[i]), 3),
                     FirstTarget(Drop(Strip(lines[i]), 3), mods, 1))

\* lines 377-399: a line that starts with '# ', uncommented, and the index t
\* of the target module it matches
UndoCommented(lines, i, mods, new_lines, d, uncommented, t) ==
  IF StartsWith(uncommented, ImportSystem)
  THEN UndoLoop(lines, i + 1, mods, Append(new_lines, uncommented), d)
  ELSE IF t = 0
  THEN UndoLoop(lines, i + 1, mods, Append(new_lines, lines[i]), d)
  ELSE IF ~get_imports(Strip(lines[i])).ok
  THEN [raised |-> TRUE, new_lines |-> Append(new_lines, uncommented),
        replacements |-> d]
  ELSE UndoLoop(lines, i + 1, mods, Append(new_lines, uncommented),
                RecordImports(get_imports(Strip(lines[i])).imports, <<mods[t]>>, d))

\* undo_replace_import_statements_with_direct_references
undo_replace_import_statements_with_direct_references(code, mods) ==
  Rewritten(UndoLoop(Split(code, <<NL>>), 1, mods, <<>>, <<>>), code, FALSE)

(***************************************************************************)
(* Input texts                                                             *)
(***************************************************************************)

MaxLines == 2

\* every text of 1..n lines drawn from pool
TextsOf(pool, n) ==
  {Join(ls, <<NL>>) : ls \in UNION {[1..k -> pool] : k \in 1..n}}

\* foo
W_foo == <<"f","o","o">>
\* bar
W_bar == <<"b","a","r">>
\* x
W_x == <<"x">>
\* x = "foo"
R_dq == <<"x"," ","="," ",DQ,"f","o","o",DQ>>
\* # foo
R_comment == <<"#"," ","f","o","o">>
\* x = 1 # foo
R_trailing == <<"x"," ","="," ","1"," ","#"," ","f","o","o">>
\* """
R_triple == <<DQ,DQ,DQ>>
\* '''
R_sq3 == <<SQ,SQ,SQ>>
\* foobar foo_x foo.baz x.foo
R_words == <<"f","o","o","b","a","r"," ","f","o","o","_","x"," ","f","o","o",
  ".","b","a","z"," ","x",".","f","o","o">>
\* s = "it's foo"
R_mixed == <<"s"," ","="," ",DQ,"i","t",SQ,"s"," ","f","o","o",DQ>>
\* s = "a\n" + foo + "b"
R_escape == <<"s"," ","="," ",DQ,"a",BSL,"n",DQ," ","+"," ","f","o","o"," ",
  "+"," ",DQ,"b",DQ>>
\* y = """foo""" + foo
R_inline == <<"y"," ","="," ",DQ,DQ,DQ,"f","o","o",DQ,DQ,DQ," ","+"," ","f",
  "o","o">>
\* s = 'foo' + foo
R_sq == <<"s"," ","="," ",SQ,"f","o","o",SQ," ","+"," ","f","o","o">>
\* """ foo
R_open == <<DQ,DQ,DQ," ","f","o","o">>
\* foo """ + foo
R_close == <<"f","o","o"," ",DQ,DQ,DQ," ","+"," ","f","o","o">>

\* foo(x.foo, xfoo)
R_call == <<"f","o","o","(","x",".","f","o","o",","," ","x","f","o","o",")">>

\* # """ foo
R_cblock == <<"#"," ",DQ,DQ,DQ," ","f","o","o">>

ReplacePool ==
  {R_dq, R_comment, R_trailing, R_triple, R_sq3, R_words, R_mixed, R_escape,
   R_inline, R_sq, R_open, R_close, R_call, W_foo, R_cblock}

MaxFileLines == 3

\* pkg
W_pkg == <<"p","k","g">>
\* from pkg.mod import foo
F_from == <<"f","r","o","m"," ","p","k","g",".","m","o","d"," ","i","m","p",
  "o","r","t"," ","f","o","o">>
\* from pkg.mod import foo, bar as baz
F_from2 == <<"f","r","o","m"," ","p","k","g",".","m","o","d"," ","i","m","p",
  "o","r","t"," ","f","o","o",","," ","b","a","r"," ","a","s"," ","b","a",
  "z">>
\* import pkg.a.c
F_import == <<"i","m","p","o","r","t"," ","p","k","g",".","a",".","c">>
\*     from pkg.mod import foo
F_indented == <<" "," "," "," ","f","r","o","m"," ","p","k","g",".","m","o",
  "d"," ","i","m","p","o","r","t"," ","f","o","o">>
\* # from pkg.mod import foo
F_commented == <<"#"," ","f","r","o","m"," ","p","k","g",".","m","o","d"," ",
  "i","m","p","o","r","t"," ","f","o","o">>
\* foo.f(baz, c)
F_use == <<"f","o","o",".","f","(","b","a","z",","," ","c",")">>
\* from pkg.mod import foo, \
F_cont == <<"f","r","o","m"," ","p","k","g",".","m","o","d"," ","i","m","p",
  "o","r","t"," ","f","o","o",","," ",BSL>>
\*     bar
F_tail == <<" "," "," "," ","b","a","r">>
\* from pkg.mod import (foo,
F_paren == <<"f","r","o","m"," ","p","k","g",".","m","o","d"," ","i","m","p",
  "o","r","t"," ","(","f","o","o",",">>
\*     bar)
F_ptail == <<" "," "," "," ","b","a","r",")">>
\* # coding=utf-8
F_coding == <<"#"," ","c","o","d","i","n","g","=","u","t","f","-","8">>
\* s = '# coding=x'
F_str == <<"s"," ","="," ",SQ,"#"," ","c","o","d","i","n","g","=","x",SQ>>
\* from pkgother import x
F_other == <<"f","r","o","m"," ","p","k","g","o","t","h","e","r"," ","i","m",
  "p","o","r","t"," ","x">>
\* import system.tag
F_system == <<"i","m","p","o","r","t"," ","s","y","s","t","e","m",".","t",
  "a","g">>
\* \tfoo()
F_tabbed == <<TAB,"f","o","o","(",")">>
\*         x = foo
F_deep == <<" "," "," "," "," "," "," "," ","x"," ","="," ","f","o","o">>

FilePool ==
  {F_from, F_from2, F_import, F_indented, F_commented, F_use, R_triple, F_cont,
   F_tail, F_paren, F_ptail, F_coding, F_str, F_other, F_system, F_tabbed,
   F_deep}

(***************************************************************************)
(* The three groups of variables at rest                                   *)
(***************************************************************************)

IdleR ==
  /\ rr_code = <<>> /\ rr_find = <<>> /\ rr_replace = <<>> /\ rr_i = 0
  /\ multiline_quote = FALSE /\ modified_lines = <<>>
  /\ rr_pc = "idle" /\ rr_result = <<>>

IdleF ==
  /\ src = <<>> /\ source_modules = <<>> /\ char_to_tab = FALSE
  /\ tab_size = 0 /\ py_code = <<>>
  /\ pass = "idle" /\ step = "idle" /\ fwd_out = <<>>
  /\ fwd_replacements = <<>> /\ inv_replacements = <<>>
  /\ fwd_new_lines = <<>> /\ exc = "none"

IdleB ==
  /\ op = "idle" /\ clean = FALSE /\ files = <<>> /\ dest_exists = FALSE
  /\ stale = FALSE /\ dest = <<>> /\ fi = 0 /\ pc = "idle" /\ fs_log = <<>> /\ raised = "none"

(***************************************************************************)
(* replace_reference, one line of its loop at a time                       *)
(***************************************************************************)

InitReplace ==
  /\ rr_code \in TextsOf(ReplacePool, MaxLines)
  /\ rr_find \in {W_foo, W_x}
  /\ rr_replace = W_bar
  /\ rr_i = 0
  /\ multiline_quote = FALSE
  /\ modified_lines = <<>>
  /\ rr_pc = "loop"
  /\ rr_result = <<>>
  /\ IdleF /\ IdleB

rr_lines == Split(rr_code, <<NL>>)

\* the loop body on the next line, r being what the iteration gives
RR_Append(r) ==
  /\ rr_i' = rr_i + 1
  /\ modified_lines' = Append(modified_lines, r.out)
  /\ multiline_quote' = r.mq
  /\ UNCHANGED <<rr_code, rr_find, rr_replace, rr_pc, rr_result, varsF, varsB>>

RR_Iterate ==
  RR_Append(ReplaceLine(rr_lines[rr_i + 1], multiline_quote, rr_find, rr_replace))

RR_HasNext == rr_pc = "loop" /\ rr_i < Len(rr_lines)

\* lines 237-257
RR_InMultiline ==
  /\ RR_HasNext
  /\ multiline_quote
  /\ RR_Iterate

\* lines 259-278
RR_Delimiter ==
  /\ RR_HasNext
  /\ ~multiline_quote
  /\ ~IsCommentLine(rr_lines[rr_i + 1])
  /\ Contains(rr_lines[rr_i + 1], TripleQuote)
  /\ RR_Iterate

\* lines 281-283
RR_Comment ==
  /\ RR_HasNext
  /\ ~multiline_quote
  /\ IsCommentLine(rr_lines[rr_i + 1])
  /\ RR_Iterate

\* lines 285-292
RR_Statement ==
  /\ RR_HasNext
  /\ ~multiline_quote
  /\ ~IsCommentLine(rr_lines[rr_i + 1])
  /\ ~Contains(rr_lines[rr_i + 1], TripleQuote)
  /\ RR_Iterate

\* line 294
RR_Return ==
  /\ rr_pc = "loop"
  /\ rr_i = Len(rr_lines)
  /\ rr_pc' = "done"
  /\ rr_result' = Join(modified_lines, <<NL>>)
  /\ UNCHANGED <<rr_code, rr_find, rr_replace, rr_i, multiline_quote,
                 modified_lines, varsF, varsB>>

NextReplace ==
  \/ RR_InMultiline
  \/ RR_Delimiter
  \/ RR_Comment
  \/ RR_Statement
  \/ RR_Return

SpecReplace == InitReplace /\ [][NextReplace]_vars

(***************************************************************************)
(* The per-file transforms of build and reverse_build                      *)
(***************************************************************************)

TAB_INDENT == 4

\* # coding=
CodingLower == <<"#"," ","c","o","d","i","n","g","=">>
\* # CODING=
CodingUpper == <<"#"," ","C","O","D","I","N","G","=">>

\* One source file: build's process_py_file on it (pass "forward"), then
\* either reverse_build's process_directory on the result (pass "inverse") or
\* process_py_file once more on the result (pass "again").
InitFile ==
  /\ src \in TextsOf(FilePool, MaxFileLines)
  /\ source_modules = <<W_pkg>>
  /\ \E args \in {<<TRUE, TAB_INDENT>>, <<TRUE, 2>>, <<FALSE, TAB_INDENT>>} :
       char_to_tab = args[1] /\ tab_size = args[2]
  /\ py_code = src
  /\ pass = "forward"
  /\ step = "read"
  /\ fwd_out = <<>>
  /\ fwd_replacements = <<>>
  /\ inv_replacements = <<>>
  /\ fwd_new_lines = <<>>
  /\ exc = "none"
  /\ IdleR /\ IdleB

\* line 498
F_Coding ==
  /\ pass \in {"forward", "again"}
  /\ step = "read"
  /\ py_code' = ReplaceFirst(py_code, CodingLower, CodingUpper)
  /\ step' = "coded"
  /\ UNCHANGED <<src, source_modules, char_to_tab, tab_size, pass, fwd_out,
                 fwd_replacements, inv_replacements, fwd_new_lines, exc,
                 varsR, varsB>>

\* lines 504-507 and 446-449: r is what the rewriting function gave; a
\* SyntaxError is raised again, with the path
AfterRewrite(r) ==
  IF r.raised
  THEN /\ exc' = "SyntaxError"
       /\ step' = "raised"
       /\ UNCHANGED <<py_code, fwd_replacements, inv_replacements,
                      fwd_new_lines>>
  ELSE /\ py_code' = r.code
       /\ fwd_replacements' = IF pass = "forward" THEN r.replacements
                              ELSE fwd_replacements
       /\ inv_replacements' = IF pass = "inverse" THEN r.replacements
                              ELSE inv_replacements
       /\ fwd_new_lines' = IF pass = "forward" THEN r.new_lines
                           ELSE fwd_new_lines
       /\ step' = "rewritten"
       /\ UNCHANGED exc

\* lines 504-507
F_Rewrite ==
  /\ pass \in {"forward", "again"}
  /\ step = "coded"
  /\ AfterRewrite(replace_import_statements_with_direct_references(py_code, source_modules))
  /\ UNCHANGED <<src, source_modules, char_to_tab, tab_size, pass, fwd_out,
                 varsR, varsB>>

\* lines 509-519: the folding, and the text written to code.py
F_Fold ==
  /\ pass \in {"forward", "again"}
  /\ step = "rewritten"
  /\ py_code' = IF char_to_tab THEN ReplaceAll(py_code, Spaces(tab_size), <<TAB>>)
                ELSE py_code
  /\ step' = "written"
  /\ fwd_out' = IF pass = "forward" THEN py_code' ELSE fwd_out
  /\ UNCHANGED <<src, source_modules, char_to_tab, tab_size, pass,
                 fwd_replacements, inv_replacements, fwd_new_lines, exc,
                 varsR, varsB>>

\* lines 436-437: reverse_build reads the code.py build wrote
BeginInverse ==
  /\ pass = "forward"
  /\ step = "written"
  /\ pass' = "inverse"
  /\ step' = "read"
  /\ py_code' = fwd_out
  /\ UNCHANGED <<src, source_modules, char_to_tab, tab_size, fwd_out,
                 fwd_replacements, inv_replacements, fwd_new_lines, exc,
                 varsR, varsB>>

\* lines 493-494: build reads its own output as a source file
BeginAgain ==
  /\ pass = "forward"
  /\ step = "written"
  /\ pass' = "again"
  /\ step' = "read"
  /\ py_code' = fwd_out
  /\ UNCHANGED <<src, source_modules, char_to_tab, tab_size, fwd_out,
                 fwd_replacements, inv_replacements, fwd_new_lines, exc,
                 varsR, varsB>>

\* line 440
I_Coding ==
  /\ pass = "inverse"
  /\ step = "read"
  /\ py_code' = ReplaceFirst(py_code, CodingUpper, CodingLower)
  /\ step' = "coded"
  /\ UNCHANGED <<src, source_modules, char_to_tab, tab_size, pass, fwd_out,
                 fwd_replacements, inv_replacements, fwd_new_lines, exc,
                 varsR, varsB>>

\* lines 446-449
I_Undo ==
  /\ pass = "inverse"
  /\ step = "coded"
  /\ AfterRewrite(undo_replace_import_statements_with_direct_references(py_code, source_modules))
  /\ UNCHANGED <<src, source_modules, char_to_tab, tab_size, pass, fwd_out,
                 varsR, varsB>>

\* lines 451-455: the unfolding, and the text written to the .py file
I_Unfold ==
  /\ pass = "inverse"
  /\ step = "rewritten"
  /\ py_code' = IF char_to_tab THEN ReplaceAll(py_code, <<TAB>>, Spaces(tab_size))
                ELSE py_code
  /\ step' = "written"
  /\ UNCHANGED <<src, source_modules, char_to_tab, tab_size, pass, fwd_out,
                 fwd_replacements, inv_replacements, fwd_new_lines, exc,
                 varsR, varsB>>

NextFile ==
  \/ F_Coding
  \/ F_Rewrite
  \/ F_Fold
  \/ BeginInverse
  \/ BeginAgain
  \/ I_Coding
  \/ I_Undo
  \/ I_Unfold

SpecFile == InitFile /\ [][NextFile]_vars

(***************************************************************************)
(* build and reverse_build over a tree of files                            *)
(***************************************************************************)

MaxFiles == 3

\* lines 498-510: the text process_py_file writes to code.py, r being what
\* replace_import_statements_with_direct_references gave
FoldedCode(r, to_tab, size) ==
  IF r.raised THEN [raised |-> TRUE, code |-> <<>>]
  ELSE [raised |-> FALSE,
        code |-> IF to_tab THEN ReplaceAll(r.code, Spaces(size), <<TAB>>) ELSE r.code]

process_py_file(text, mods, to_tab, size) ==
  FoldedCode(replace_import_statements_with_direct_references(
               ReplaceFirst(text, CodingLower, CodingUpper), mods),
             to_tab, size)

\* lines 440-452: the text process_directory writes to the .py file, r being
\* what undo_replace_import_statements_with_direct_references gave
UnfoldedCode(r, to_tab, size) ==
  IF r.raised THEN [raised |-> TRUE, code |-> <<>>]
  ELSE [raised |-> FALSE,
        code |-> IF to_tab THEN ReplaceAll(r.code, <<TAB>>, Spaces(size)) ELSE r.code]

process_directory(text, mods, to_tab, size) ==
  UnfoldedCode(undo_replace_import_statements_with_direct_references(
                 ReplaceFirst(text, CodingUpper, CodingLower), mods),
               to_tab, size)

\* from pkg.mod import foo / foo.f(baz, c)
B_good == F_from \o <<NL>> \o F_use
\* from pkg.mod import (foo, /     bar)
B_malformed == F_paren \o <<NL>> \o F_ptail
\* # from pkg.mod import foo / pkg.mod.foo.f(baz, c)
B_library == F_commented \o <<NL>> \o W_pkg \o <<".","m","o","d",".">> \o F_use

BatchPool == {B_good, B_malformed, B_library, F_use}

Absent == [present |-> FALSE, text |-> <<>>]

\* The source tree is one package folder holding the files; the destination
\* folder may exist, with the files of an earlier run in it.
Init ==
  /\ op \in {"build", "reverse_build"}
  /\ clean \in BOOLEAN
  /\ files \in UNION {[1..n -> BatchPool] : n \in 1..MaxFiles}
  /\ dest_exists \in BOOLEAN
  /\ stale = dest_exists
  /\ dest = [i \in 1..Len(files) |-> Absent]
  /\ fi = 0
  /\ pc = "start"
  /\ fs_log = <<>>
  /\ raised = "none"
  /\ IdleR /\ IdleF

\* lines 487-490 and 424-427: the forgetful variant leaves the tree alone
Clean_Forgotten ==
  /\ pc = "start"
  /\ pc' = "tree"
  /\ UNCHANGED <<op, clean, files, dest_exists, stale, dest, fi, fs_log, raised,
                 varsR, varsF>>

\* lines 487-490 and 424-427: with clean, the destination folder is removed
\* if it exists, before anything else
Clean ==
  /\ pc = "start"
  /\ IF clean /\ dest_exists
     THEN /\ fs_log' = Append(fs_log, "rmtree")
          /\ dest_exists' = FALSE
          /\ stale' = FALSE
     ELSE UNCHANGED <<fs_log, dest_exists, stale>>
  /\ pc' = "tree"
  /\ UNCHANGED <<op, clean, files, dest, fi, raised, varsR, varsF>>

\* lines 525-532 (build: the folder of each directory of the walk) and
\* 457-462 (reverse_build: the folder and its __init__.py)
MakeFolders ==
  /\ pc = "tree"
  /\ fs_log' = fs_log
       \o (IF dest_exists THEN <<>> ELSE <<"makedirs">>)
       \o (IF op = "reverse_build" THEN <<"write">> ELSE <<>>)
  /\ dest_exists' = TRUE
  /\ pc' = "files"
  /\ UNCHANGED <<op, clean, files, stale, dest, fi, raised, varsR, varsF>>

\* the next file transformed into r: written, or the exception raised again
\* with the path of the file, which ends the run
WriteOrRaise(r, writes) ==
  IF r.raised
  THEN /\ raised' = [exception |-> "SyntaxError", path |-> fi + 1]
       /\ pc' = "raised"
       /\ UNCHANGED <<dest, fi, fs_log>>
  ELSE /\ dest' = [dest EXCEPT ![fi + 1] = [present |-> TRUE, text |-> r.code]]
       /\ fs_log' = fs_log \o writes
       /\ fi' = fi + 1
       /\ UNCHANGED <<pc, raised>>

\* lines 534-538 and 492-523: process_py_file on the next file of the walk
BuildFile ==
  /\ op = "build"
  /\ pc = "files"
  /\ fi < Len(files)
  /\ WriteOrRaise(process_py_file(files[fi + 1], <<W_pkg>>, TRUE, TAB_INDENT),
                  <<"makedirs", "write", "write">>)
  /\ UNCHANGED <<op, clean, files, dest_exists, stale, varsR, varsF>>

\* lines 463-467 and 432-455: process_directory on the next component folder
ReverseFile ==
  /\ op = "reverse_build"
  /\ pc = "files"
  /\ fi < Len(files)
  /\ WriteOrRaise(process_directory(files[fi + 1], <<W_pkg>>, TRUE, TAB_INDENT),
                  <<"write">>)
  /\ UNCHANGED <<op, clean, files, dest_exists, stale, varsR, varsF>>

\* the walk is over: build or reverse_build returns
Return ==
  /\ pc = "files"
  /\ fi = Len(files)
  /\ pc' = "done"
  /\ UNCHANGED <<op, clean, files, dest_exists, stale, dest, fi, fs_log, raised,
                 varsR, varsF>>

Next ==
  \/ Clean
  \/ MakeFolders
  \/ BuildFile
  \/ ReverseFile
  \/ Return

Spec == Init /\ [][Next]_vars

(***************************************************************************)
(* Properties of a batch run                                               *)
(***************************************************************************)

\* the file has a directive get_imports rejects
Malformed(text) == process_py_file(text, <<W_pkg>>, TRUE, TAB_INDENT).raised

\* C8: per-file failure isolation: when a run of build has ended, with or
\* without a file whose directive is malformed, every other file of the
\* batch, visited before or after it, has been transformed and written.
C8_FailureIsolation ==
  (op = "build" /\ pc \in {"done", "raised"})
    => \A i \in 1..Len(files) :
         ~Malformed(files[i])
           => /\ dest[i].present
              /\ dest[i].text = process_py_file(files[i], <<W_pkg>>, TRUE, TAB_INDENT).code

\* C9: clean-before-write ordering: a deletion is only ever the first
\* file-system operation of a run and happens only with clean set; with clean
\* set, once anything has been created or written the destination holds
\* nothing of an earlier run.
C9_CleanBeforeWrite ==
  /\ \A j \in 1..Len(fs_log) : fs_log[j] = "rmtree" => (j = 1 /\ clean)
  /\ (clean /\ \E j \in 1..Len(fs_log) : fs_log[j] \in {"makedirs", "write"})
       => ~stale

C9_Witness ==
  /\ pc = "done"
  /\ clean
  /\ Len(fs_log) > 1
  /\ fs_log[1] = "rmtree"
  /\ \E i \in 1..Len(files) : dest[i].present

(***************************************************************************)
(* Properties of the per-file transforms                                   *)
(***************************************************************************)

src_lines == Split(src, <<NL>>)
out_lines == Split(py_code, <<NL>>)

\* a line of the shape of a directive for one of the root modules
DirectiveShape(line) == is_import_statement(Strip(line), source_modules)

\* the legacy alias-assignment pattern: NAME = root.path
LegacyAlias(line) ==
  LET toks == Tokenize(line) IN
  /\ Len(toks) >= 5
  /\ IsName(toks[1])
  /\ toks[2] = <<"=">>
  /\ InSeq(toks[3], source_modules)
  /\ toks[4] = <<".">>

\* C1: round trip: the inverse transform of reverse_build applied to the
\* forward transform of build, with the same root modules and tab size,
\* yields the source text exactly, for a source with no legacy alias line.
C1_RoundTrip ==
  (/\ pass = "inverse"
   /\ step = "written"
   /\ \A k \in 1..Len(src_lines) : ~LegacyAlias(src_lines[k]))
    => py_code = src

\* the number of multi-line delimiters in the lines before line k
RECURSIVE DelimitersBefore(_, _)
DelimitersBefore(lines, k) ==
  IF k <= 1 THEN 0
  ELSE DelimitersBefore(lines, k - 1) + Len(Split(lines[k - 1], TripleQuote)) - 1

\* line k lies between an opening and a closing multi-line delimiter
InsideBlock(lines, k) ==
  /\ DelimitersBefore(lines, k) % 2 = 1
  /\ ~Contains(lines[k], TripleQuote)
  /\ \E j \in (k + 1)..Len(lines) : Contains(lines[j], TripleQuote)

\* C3: the forward rewrite leaves a directive-shaped line inside a multi-line
\* string block as it is: the line is in the output exactly as in the input,
\* and when every directive-shaped line of the text is inside a block no
\* alias entry is recorded.
C3_BlockLinesUntouched ==
  (pass = "forward" /\ step = "rewritten")
    => /\ \A k \in 1..Len(src_lines) :
            (InsideBlock(src_lines, k) /\ DirectiveShape(src_lines[k]))
              => InSeq(src_lines[k], out_lines)
       /\ (\A k \in 1..Len(src_lines) :
             DirectiveShape(src_lines[k]) => InsideBlock(src_lines, k))
            => fwd_replacements = <<>>

\* C5: forward idempotence: the forward transform applied to its own output
\* yields that output unchanged.
C5_ForwardIdempotent ==
  (pass = "again" /\ step = "written") => py_code = fwd_out

\* the logical line python reads from two physical lines: the first ends in a
\* continuation marker, or opens a bracket the second closes
LogicalLine(l1, l2) ==
  IF EndsWith(Strip(l1), <<BSL>>)
  THEN SubSeq(Strip(l1), 1, Len(Strip(l1)) - 1) \o Strip(l2)
  ELSE Strip(l1) \o Strip(l2)

\* the text starts with one well-formed directive on two physical lines, by
\* continuation marker or by bracketed list, and holds no other directive
MultiLineDirective(lines) ==
  /\ Len(lines) >= 2
  /\ DirectiveShape(lines[1])
  /\ StartsWith(lines[1], KwFrom)
  /\ EndsWith(Strip(lines[1]), <<BSL>>) \/ InSeq("(", lines[1])
  /\ ~get_imports(Strip(lines[1])).ok
  /\ ~DirectiveShape(lines[2])
  /\ get_imports(LogicalLine(lines[1], lines[2])).ok
  /\ \A j \in 3..Len(lines) :
       /\ ~DirectiveShape(lines[j])
       /\ ~StartsWith(lines[j], CommentPrefix)
       /\ ~StartsWith(lines[j], ImportSystem)

\* the keys of a replacements dict
Keys(d) == {d[k][1] : k \in 1..Len(d)}

\* the local names a directive line binds
LocalNames(line) ==
  LET imps == get_imports(line).imports IN
  {IF imps[k].alias = <<>> THEN imps[k].name[Len(imps[k].name)] ELSE imps[k].alias :
     k \in 1..Len(imps)}

\* C7: a targeted directive on several physical lines, by continuation
\* markers or by a bracketed list, is joined before extraction: no exception
\* is raised, the output holds a single commented directive line, and the
\* mapping has an entry for every name imported on any of the lines.
C7_MultiLineJoined ==
  (/\ pass = "forward"
   /\ step \in {"rewritten", "raised"}
   /\ MultiLineDirective(src_lines))
    => /\ exc = "none"
       /\ Cardinality({k \in 1..Len(out_lines) :
                         /\ StartsWith(out_lines[k], CommentPrefix)
                         /\ DirectiveShape(Drop(out_lines[k], 3))}) = 1
       /\ LocalNames(LogicalLine(src_lines[1], src_lines[2])) \subseteq Keys(fwd_replacements)

\* the entries of a replacements dict
Entries(d) == {d[k] : k \in 1..Len(d)}

\* C10: the mapping the inverse rebuilds from the commented directive lines
\* of the forward output has the entries of the mapping the forward pass
\* built from the source.
C10_InverseMappingEqualsForward ==
  (pass = "inverse" /\ step \in {"rewritten", "written"})
    => Entries(inv_replacements) = Entries(fwd_replacements)

(***************************************************************************)
(* Properties of replace_reference                                         *)
(***************************************************************************)

\* The lexical structure of python source, for stating what lies inside a
\* literal or a comment: for each character of s, whether it is part of a
\* quoted literal (quotes included), of a multi-line block or of a comment.
\* st is "code", "comment", or the delimiter of the literal being read.
RECURSIVE LexMask(_, _, _)
LexMask(s, i, st) ==
  IF i > Len(s) THEN <<>>
  ELSE LET c == s[i]
           triple == <<c, c, c>>
           more(n, st2) == [k \in 1..n |-> TRUE] \o LexMask(s, i + n, st2)
       IN
    IF st = "code" THEN
      IF c = "#" THEN more(1, "comment")
      ELSE IF c \in QuoteChars /\ StartsWith(Drop(s, i), triple)
        THEN more(3, triple)
      ELSE IF c \in QuoteChars THEN more(1, <<c>>)
      ELSE <<FALSE>> \o LexMask(s, i + 1, "code")
    ELSE IF st = "comment" THEN
      IF c = NL THEN <<FALSE>> \o LexMask(s, i + 1, "code")
      ELSE more(1, "comment")
    ELSE IF c = BSL /\ i < Len(s) THEN more(2, st)
    ELSE IF StartsWith(Drop(s, i), st) THEN more(Len(st), "code")
    ELSE IF c = NL /\ Len(st) = 1 THEN <<FALSE>> \o LexMask(s, i + 1, "code")
    ELSE more(1, st)

\* find occurs in s at i as a whole identifier
WholeWordAt(s, i, find) ==
  /\ i + Len(find) - 1 <= Len(s)
  /\ SubSeq(s, i, i + Len(find) - 1) = find
  /\ ~IsWordAt(s, i - 1)
  /\ ~IsWordAt(s, i + Len(find))

\* every whole-identifier occurrence of find in s is inside a literal or a comment
OnlyInLiteralOrComment(s, find) ==
  LET mask == LexMask(s, 1, "code") IN
  /\ \E i \in 1..Len(s) : WholeWordAt(s, i, find)
  /\ \A i \in 1..Len(s) : WholeWordAt(s, i, find) => mask[i]

\* C2: literal safety: when every occurrence of the identifier find lies
\* inside a quoted literal, a multi-line block or a comment (whole-line or
\* trailing), replace_reference returns the text unchanged.
C2_LiteralSafety ==
  (rr_pc = "done" /\ OnlyInLiteralOrComment(rr_code, rr_find))
    => rr_result = rr_code

\* the maximal runs of word characters and of other characters of s
RECURSIVE IdentifierTokens(_)
IdentifierTokens(s) ==
  IF s = <<>> THEN <<>>
  ELSE LET w == Head(s) \in WordChars
           n == CHOOSE k \in 1..Len(s) :
                  /\ \A j \in 1..k : (s[j] \in WordChars) = w
                  /\ (k < Len(s) => (s[k + 1] \in WordChars) # w)
       IN <<SubSeq(s, 1, n)>> \o IdentifierTokens(Drop(s, n + 1))

\* s with every token that is exactly old replaced by new
TokenwiseReplace(s, old, new) ==
  LET toks == IdentifierTokens(s) IN
  Join([k \in 1..Len(toks) |-> IF toks[k] = old THEN new ELSE toks[k]], <<>>)

\* no quote character and no comment marker in s: s is code throughout
PlainCode(s) == \A i \in 1..Len(s) : s[i] \notin QuoteChars \cup {"#"}

\* C4: whole-word match: in code, replace_reference rewrites exactly the
\* complete identifier tokens equal to old; a longer identifier that contains
\* old (foobar, foo_x, xfoo) is left as it is, and old next to "." is rewritten.
C4_WholeWordMatch ==
  (rr_pc = "done" /\ PlainCode(rr_code))
    => rr_result = TokenwiseReplace(rr_code, rr_find, rr_replace)

\* foobar foo_x bar.baz x.bar
R_words_replaced == <<"f","o","o","b","a","r"," ","f","o","o","_","x"," ",
  "b","a","r",".","b","a","z"," ","x",".","b","a","r">>

C4_Witness ==
  /\ rr_pc = "done"
  /\ rr_code = R_words
  /\ rr_find = W_foo
  /\ rr_result = R_words_replaced

\* Quoted literal runs as the claim defines them: a run opens at a quote
\* character met in code and ends at the first unescaped quote equal to the
\* one that opened it; a backslash escapes exactly the next character.
\* q is "" in code, else the quote that opened the run being read.
RECURSIVE RunMask(_, _, _)
RunMask(line, i, q) ==
  IF i > Len(line) THEN <<>>
  ELSE LET c == line[i] IN
    IF q = "" THEN
      IF c \in QuoteChars THEN <<TRUE>> \o RunMask(line, i + 1, c)
      ELSE <<FALSE>> \o RunMask(line, i + 1, "")
    ELSE IF c = BSL /\ i < Len(line) THEN <<TRUE, TRUE>> \o RunMask(line, i + 2, q)
    ELSE IF c = q THEN <<TRUE>> \o RunMask(line, i + 1, "")
    ELSE <<TRUE>> \o RunMask(line, i + 1, q)

\* out is line with some whole-identifier occurrences of old replaced by
\* new, among them every occurrence outside the runs (mask FALSE); i and j
\* walk line and out together
RECURSIVE OutsideRunsReplaced(_, _, _, _, _, _, _)
OutsideRunsReplaced(line, mask, out, i, j, old, new) ==
  IF i > Len(line) THEN j > Len(out)
  ELSE IF WholeWordAt(line, i, old) /\ StartsWith(Drop(out, j), new)
    THEN OutsideRunsReplaced(line, mask, out, i + Len(old), j + Len(new), old, new)
  ELSE IF WholeWordAt(line, i, old) /\ ~mask[i]
    THEN FALSE
  ELSE /\ j <= Len(out)
       /\ out[j] = line[i]
       /\ OutsideRunsReplaced(line, mask, out, i + 1, j + 1, old, new)

\* no multi-line delimiter of either quote in the first k lines
NoBlockUpTo(lines, k) ==
  \A j \in 1..k : ~Contains(lines[j], TripleQuote) /\ ~Contains(lines[j], <<SQ, SQ, SQ>>)

\* C6: substitution completeness: on a line outside any multi-line block
\* that is not a whole-line comment, every whole-identifier occurrence of old
\* outside the single- and double-quoted literal runs is replaced.
C6_SubstitutionCompleteness ==
  \A k \in 1..rr_i :
    (NoBlockUpTo(rr_lines, k) /\ ~IsCommentLine(rr_lines[k]))
      => OutsideRunsReplaced(rr_lines[k], RunMask(rr_lines[k], 1, ""),
                             modified_lines[k], 1, 1, rr_find, rr_replace)

(***************************************************************************)
(* Properties of the forward loop before the substitution                  *)
(***************************************************************************)

\* the lines the forward rewriter is given: the source after line 498
coded_lines == Split(ReplaceFirst(src, CodingLower, CodingUpper), <<NL>>)

\* system, the reserved root of the host API
W_system == <<"s","y","s","t","e","m">>

\* the first path segment of an Import tuple
RootOf(imp) == (imp.module \o imp.name)[1]

\* the line, indented or not, is an import directive and the root module of
\* one of its imports is exactly a configured root module or system
TargetedDirective(line) ==
  LET g == get_imports(Strip(line)) IN
  /\ g.ok
  /\ \E k \in 1..Len(g.imports) :
       \/ InSeq(RootOf(g.imports[k]), source_modules)
       \/ RootOf(g.imports[k]) = W_system

\* no line ends in a continuation marker, so that each line of the input is
\* one line of new_lines
NoContinuation(lines) ==
  \A k \in 1..Len(lines) : ~EndsWith(Strip(lines[k]), <<BSL>>)

\* C11: only targeted directives are transformed: in the new_lines of the
\* forward loop, before the substitution, every line that is not a directive
\* whose root module is exactly a configured root module or system is the
\* input line unchanged; a prefix of the module name does not count.
C11_OnlyTargetedTransformed ==
  (/\ pass = "forward"
   /\ step \in {"rewritten", "written"}
   /\ NoContinuation(coded_lines))
    => /\ Len(fwd_new_lines) = Len(coded_lines)
       /\ \A k \in 1..Len(coded_lines) :
            ~TargetedDirective(coded_lines[k])
              => fwd_new_lines[k] = coded_lines[k]
(***************************************************************************)
(* Properties of the carried multi-line state of replace_reference         *)
(***************************************************************************)

\* the number of multi-line delimiters in a line, as split counts them
DelimiterCount(line) == Len(Split(line, TripleQuote)) - 1

\* the line is processed as part of a block (the state is set) or as code
\* (it is not a whole-line comment)
ProcessedAsCodeOrBlock(line, in_multiline) == in_multiline \/ ~IsCommentLine(line)

\* one iteration of the loop: the state after the line is the state before
\* it, flipped exactly when the delimiter count of the line is odd
ToggleStep ==
  (/\ rr_pc = "loop"
   /\ rr_i' = rr_i + 1
   /\ ProcessedAsCodeOrBlock(rr_lines[rr_i + 1], multiline_quote))
    => multiline_quote' = IF DelimiterCount(rr_lines[rr_i + 1]) % 2 = 1
                          THEN ~multiline_quote
                          ELSE multiline_quote

\* the run returned with a block still open: every line of the text was
\* emitted, and each line after the last delimiter is emitted unchanged
RemainderUnchanged ==
  (rr_pc = "done" /\ multiline_quote)
    => /\ Len(modified_lines) = Len(rr_lines)
       /\ \A k \in 1..Len(rr_lines) :
            (\A j \in k..Len(rr_lines) : ~Contains(rr_lines[j], TripleQuote))
              => modified_lines[k] = rr_lines[k]

\* C12: multi-line state toggling: for every line processed as code or as
\* part of a multi-line block the carried state flips exactly when the line
\* holds an odd number of multi-line delimiters and is kept when the number
\* is even; and when the text ends with a block still open, every line
\* after the last opening delimiter is emitted unchanged and the function
\* returns.
C12_StateToggling == [][ToggleStep]_vars /\ []RemainderUnchanged

\* a block opened on the first line and never closed, and a second line
\* holding the identifier, returned as it was
C12_Witness ==
  /\ rr_pc = "done"
  /\ multiline_quote
  /\ rr_find = W_foo
  /\ rr_code = R_open \o <<NL>> \o W_foo
  /\ rr_result = rr_code


=============================================================================
